---------------------------- MODULE Spec2Model ----------------------------
(***************************************************************************)
(* A model of gubernator's Instance (grpc.go): the membership rebuild      *)
(* (updatePeers), the request dispatchers (GetRateLimits,                  *)
(* GetPeerRateLimits), HealthCheck with the health state, and the          *)
(* Start/Stop lifecycle.                                                   *)
(*                                                                         *)
(* Addresses are the numbers 1..NumPeers.  A peer handle (a PeerClient) is *)
(* a heap object named [host, gen]: its address and the ordinal of the     *)
(* rebuild whose NewPeerClient call constructed it.  Its isOwner field is  *)
(* kept in the heap variable isOwner.  Membership lists hold each address  *)
(* at most once.  The Picker, the algorithms, NewPeerClient and the remote *)
(* call are collaborators outside grpc.go: the Picker is an address-keyed  *)
(* map with a ring lookup, the others are nondeterministic outcomes.       *)
(***************************************************************************)
EXTENDS Integers, Sequences, FiniteSets, TLC

\* ------------------------------------------------------------------ bounds
\* Number of cluster addresses.
NumPeers == 2
\* Number of updatePeers calls the membership mechanism delivers.
MaxRebuilds == 2
\* grpc.go:21 sets the batch ceiling to 1000; the model scales it down.  The
\* code only ever compares len(r.Requests) with it.
maxBatchSize == 2

\* ------------------------------------------------------- program constants
Healthy == "healthy"
UnHealthy == "unhealthy"
Algorithm_TOKEN_BUCKET == 0
Algorithm_LEAKY_BUCKET == 1
\* conf.AdvertiseAddress, fixed by New.
AdvertiseAddress == 1

Addrs == 1..NumPeers
NoPeer == [host |-> 0, gen |-> 0]

\* All duplicate-free sequences over a set.
RECURSIVE ListsOver(_)
ListsOver(S) ==
    IF S = {} THEN {<<>>}
    ELSE {<<>>} \cup UNION {{<<a>> \o l : l \in ListsOver(S \ {a})} : a \in S}
MembershipLists == ListsOver(Addrs)

VARIABLES
    Picker,      \* s.conf.Picker: the published Router, address -> handle
    isOwner,     \* heap: PeerClient.isOwner of every handle ever added
    health,      \* s.health
    peerMutex,   \* s.peerMutex: [readers, writer, waiting]
    upd,         \* the locals of the (serialized) updatePeers call
    hist,        \* history of the most recent commit
    call,        \* the locals of each dispatcher call
    cacheLock,   \* s.conf.Cache's lock: the caller holding it, or 0
    life         \* Start/Stop lifecycle
vars == <<Picker, isOwner, health, peerMutex, upd, hist, call, cacheLock, life>>

\* --------------------------------------------------------- Picker capability
\* Picker.New(): an empty Router.
PickerNew == [a \in {} |-> NoPeer]
\* Picker.Add(handle): keyed by the handle's address.
PickerAdd(p, h) == [a \in DOMAIN p \cup {h.host} |-> IF a = h.host THEN h ELSE p[a]]
\* Picker.Size()
PickerSize(p) == Cardinality(DOMAIN p)
\* Picker.GetPeer(address): the handle of that address, or nil.
PickerGetPeer(p, a) == IF a \in DOMAIN p THEN p[a] ELSE NoPeer
\* The ring position of a global key <<namespace, unique_key>>.
HashOf(key) == IF key[2] = "k2" THEN 2 ELSE 1
\* Picker.Get(key): the first member at or after the key's ring position,
\* wrapping round; NoPeer (an error) when the Router is empty.
PickerGet(p, key) ==
    IF DOMAIN p = {} THEN NoPeer
    ELSE LET after == {a \in DOMAIN p : a >= HashOf(key)}
             pick  == IF after # {} THEN after ELSE DOMAIN p
         IN p[CHOOSE a \in pick : \A b \in pick : a <= b]

\* --------------------------------------------------------------- updatePeers
\* ok is a ghost local: NewPeerClient's outcome for each address read so far.
UpdIdle ==
    [pc |-> "idle", conf |-> <<>>, i |-> 0, picker |-> PickerNew, errs |-> <<>>,
     ok |-> <<>>]

Range(seq) == {seq[j] : j \in 1..Len(seq)}
\* The addresses of conf whose connect failed, given the outcomes ok.
Failed(conf, ok) == {conf[j] : j \in {k \in 1..Len(ok) : ~ok[k]}}

\* The message of line 256 for one address that failed to connect.
ConnectErr(peer) ==
    [text |-> "failed to connect to peer; consistent hash is incomplete",
     peer |-> peer]

\* The zero value of HealthCheckResp, which New leaves in s.health (line 55).
HealthZero == [Status |-> "", Message |-> <<>>, PeerCount |-> 0]

InitPeers ==
    /\ Picker = PickerNew
    /\ isOwner = [h \in {} |-> FALSE]
    /\ health = HealthZero
    /\ peerMutex = [readers |-> {}, writer |-> FALSE, waiting |-> FALSE]
    /\ upd = UpdIdle
    /\ hist = [calls |-> 0, n |-> 0, conf |-> <<>>, failed |-> {}, connected |-> {},
               prev |-> PickerNew, cur |-> PickerNew, committed |-> {HealthZero}]

\* The PeerSyncer callback is invoked with a membership list (line 249-251).
updatePeersCall ==
    /\ upd.pc = "idle"
    /\ hist.calls < MaxRebuilds
    /\ \E conf \in MembershipLists :
          upd' = [UpdIdle EXCEPT !.pc = "loop", !.conf = conf, !.i = 1]
    /\ hist' = [hist EXCEPT !.calls = @ + 1]
    /\ UNCHANGED <<Picker, isOwner, health, peerMutex, call, cacheLock, life>>

\* The handle one loop iteration adds for address peer (lines 254-262): the
\* one the current Router holds for it, else the freshly constructed one.
HandleFor(peer) ==
    LET info == PickerGetPeer(Picker, peer)
    IN IF info # NoPeer THEN info ELSE [host |-> peer, gen |-> hist.n + 1]

\* A rebuild that flags every handle it adds.
OwnerFlagAlways(h, peer) == TRUE

\* A node whose advertised address is another one after the first commit.
OwnerFlagMovingAddress(h, peer) ==
    IF peer = (IF hist.n = 0 THEN AdvertiseAddress ELSE AdvertiseAddress + 1) THEN TRUE
    ELSE IF h \in DOMAIN isOwner THEN isOwner[h] ELSE FALSE

\* Lines 265-267: the owner flag the iteration leaves on handle h for peer.
OwnerFlag(h, peer) ==
    IF peer = AdvertiseAddress THEN TRUE
    ELSE IF h \in DOMAIN isOwner THEN isOwner[h] ELSE FALSE

\* One iteration of the loop of lines 253-270; ok is NewPeerClient's outcome.
updatePeersIter ==
    /\ upd.pc = "loop"
    /\ upd.i <= Len(upd.conf)
    /\ LET peer == upd.conf[upd.i] IN
       \E ok \in BOOLEAN :
          IF ~ok
          THEN /\ upd' = [upd EXCEPT !.errs = Append(@, ConnectErr(peer)), !.i = @ + 1,
                                      !.ok = Append(@, FALSE)]
               /\ UNCHANGED isOwner
          ELSE LET h == HandleFor(peer) IN
               /\ isOwner' = [x \in DOMAIN isOwner \cup {h} |->
                                IF x = h THEN OwnerFlag(h, peer) ELSE isOwner[x]]
               /\ upd' = [upd EXCEPT !.picker = PickerAdd(@, h), !.i = @ + 1,
                                      !.ok = Append(@, TRUE)]
    /\ UNCHANGED <<Picker, health, peerMutex, hist, call, cacheLock, life>>

\* s.peerMutex.Lock() (line 274): the writer first announces itself, which
\* keeps new readers out, then waits for the active readers to leave.
updatePeersLock ==
    /\ upd.pc = "loop"
    /\ upd.i > Len(upd.conf)
    /\ peerMutex' = [peerMutex EXCEPT !.waiting = TRUE]
    /\ upd' = [upd EXCEPT !.pc = "wait"]
    /\ UNCHANGED <<Picker, isOwner, health, hist, call, cacheLock, life>>

updatePeersLocked ==
    /\ upd.pc = "wait"
    /\ peerMutex.readers = {}
    /\ peerMutex' = [peerMutex EXCEPT !.waiting = FALSE, !.writer = TRUE]
    /\ upd' = [upd EXCEPT !.pc = "swap"]
    /\ UNCHANGED <<Picker, isOwner, health, hist, call, cacheLock, life>>

\* A commit that keeps the previous Router when a peer failed to connect.
SwappedPickerRollback == IF Len(upd.errs) # 0 THEN Picker ELSE upd.picker

\* The Router a commit publishes (line 278).
SwappedPicker == upd.picker

\* s.conf.Picker = picker (line 278).
updatePeersSwap ==
    /\ upd.pc = "swap"
    /\ Picker' = SwappedPicker
    /\ hist' = [hist EXCEPT !.n = @ + 1, !.conf = upd.conf,
                             !.failed = Failed(upd.conf, upd.ok),
                             !.connected = Range(upd.conf) \ Failed(upd.conf, upd.ok),
                             !.prev = Picker, !.cur = upd.picker]
    /\ upd' = [upd EXCEPT !.pc = "status"]
    /\ UNCHANGED <<isOwner, health, peerMutex, call, cacheLock, life>>

\* A commit that does not reset the status.
HealthResetMissing(h) == h

\* s.health.Status = Healthy (line 281).
HealthReset(h) == [h EXCEPT !.Status = Healthy]

updatePeersStatus ==
    /\ upd.pc = "status"
    /\ health' = HealthReset(health)
    /\ upd' = [upd EXCEPT !.pc = "errs"]
    /\ UNCHANGED <<Picker, isOwner, peerMutex, hist, call, cacheLock, life>>

\* The health record after lines 282-285, given the record h before them.
\* Message, the "|"-joined text of errs, is kept as the sequence of the joined
\* messages; the empty string is the empty sequence.
HealthAfterErrs(h, errs) ==
    IF Len(errs) # 0
    THEN [h EXCEPT !.Status = UnHealthy, !.Message = errs]
    ELSE h

updatePeersErrs ==
    /\ upd.pc = "errs"
    /\ health' = HealthAfterErrs(health, upd.errs)
    /\ upd' = [upd EXCEPT !.pc = "count"]
    /\ UNCHANGED <<Picker, isOwner, peerMutex, hist, call, cacheLock, life>>

\* s.health.PeerCount = int32(picker.Size()) (line 286).
updatePeersCount ==
    /\ upd.pc = "count"
    /\ health' = [health EXCEPT !.PeerCount = PickerSize(upd.picker)]
    /\ upd' = [upd EXCEPT !.pc = "unlock"]
    /\ UNCHANGED <<Picker, isOwner, peerMutex, hist, call, cacheLock, life>>

\* The deferred s.peerMutex.Unlock() (line 275) and the return.
updatePeersUnlock ==
    /\ upd.pc = "unlock"
    /\ peerMutex' = [peerMutex EXCEPT !.writer = FALSE]
    /\ upd' = UpdIdle
    /\ hist' = [hist EXCEPT !.committed = @ \cup {health}]
    /\ UNCHANGED <<Picker, isOwner, health, call, cacheLock, life>>

updatePeers ==
    \/ updatePeersCall
    \/ updatePeersIter
    \/ updatePeersLock
    \/ updatePeersLocked
    \/ updatePeersSwap
    \/ updatePeersStatus
    \/ updatePeersErrs
    \/ updatePeersCount
    \/ updatePeersUnlock

\* ------------------------------------------------------- request dispatchers
\* Dispatcher threads.  Spec runs the first one; the second stays idle in it.
Callers == {1, 2}

\* The request items the callers send.
Requests ==
    { [Namespace |-> "",   UniqueKey |-> "",   Algorithm |-> Algorithm_TOKEN_BUCKET],
      [Namespace |-> "",   UniqueKey |-> "k1", Algorithm |-> Algorithm_TOKEN_BUCKET],
      [Namespace |-> "ns", UniqueKey |-> "",   Algorithm |-> Algorithm_LEAKY_BUCKET],
      [Namespace |-> "ns", UniqueKey |-> "k1", Algorithm |-> Algorithm_TOKEN_BUCKET],
      [Namespace |-> "ns", UniqueKey |-> "k2", Algorithm |-> Algorithm_LEAKY_BUCKET],
      [Namespace |-> "ns", UniqueKey |-> "k1", Algorithm |-> 2] }

\* globalKey := req.Namespace + "_" + req.UniqueKey (line 150), kept as a pair.
GlobalKey(req) == <<req.Namespace, req.UniqueKey>>
NoKey == <<"", "">>

\* An error string: its fixed text, the global key and the cause formatted
\* into it.  The empty string (no error) is NoError.
Err(text, key, cause) == [text |-> text, key |-> key, cause |-> cause]
NoError == Err("", NoKey, "")

\* A RateLimit result.  Owner is Metadata["owner"] (0: no such entry),
\* Decided tells a decision of an algorithm is in it; idx is a ghost field,
\* the position of the request the result was computed for.
RateLimit(error, owner, decided, idx) ==
    [Error |-> error, Owner |-> owner, Decided |-> decided, idx |-> idx]

\* The locals of a call.  batch holds the requests the loop has read so far
\* out of the n of the call; ev is a ghost local: what the call has done so
\* far, as triples <<item position, step, address of the peer called (0:
\* none)>>.  health is the HealthCheckResp a HealthCheck caller has received
\* so far, unread the fields of it not yet read.
CallIdle ==
    [pc |-> "idle", op |-> "", n |-> 0, batch |-> <<>>, peer |-> NoPeer,
     owner |-> FALSE, resp |-> <<>>, ret |-> "", ev |-> {},
     health |-> HealthZero, unread |-> {}]

\* A dispatcher that leaves the loop iteration on an item failure without
\* reaching the append.
AppendedUnlessError(resp, rl) == IF rl.Error.text # "" THEN resp ELSE Append(resp, rl)

\* NextRateLimit: resp.RateLimits = append(resp.RateLimits, rl) (line 199,
\* line 223), then the next iteration.
Appended(resp, rl) == Append(resp, rl)

\* A validation that checks namespace before unique_key.
ValidationErrorNamespaceFirst(req) ==
    IF req.Namespace = "" THEN Err("field 'namespace' cannot be empty", NoKey, "")
    ELSE IF req.UniqueKey = "" THEN Err("field 'unique_key' cannot be empty", NoKey, "")
    ELSE NoError

\* The error of the validation of lines 155-163; NoError when the item passes.
ValidationError(req) ==
    IF req.UniqueKey = "" THEN Err("field 'unique_key' cannot be empty", NoKey, "")
    ELSE IF req.Namespace = "" THEN Err("field 'namespace' cannot be empty", NoKey, "")
    ELSE NoError

\* A batch-size check that is off by one.
TooLargeOffByOne(n) == n >= maxBatchSize

\* The batch-size check of lines 143-146 and 212-215.
TooLarge(n) == n > maxBatchSize

\* A client calls GetRateLimits with a batch of n requests.  The requests are
\* revealed one by one as the loop ranges over them.
GetRateLimitsCall(c) ==
    /\ call[c].pc = "idle"
    /\ \E n \in 0..(maxBatchSize + 1) :
          call' = [call EXCEPT ![c] =
                     IF TooLarge(n)
                     THEN [CallIdle EXCEPT !.pc = "done", !.op = "GetRateLimits",
                                           !.n = n, !.ret = "OutOfRange"]
                     ELSE [CallIdle EXCEPT !.pc = "range", !.op = "GetRateLimits",
                                           !.n = n]]
    /\ UNCHANGED <<Picker, isOwner, health, peerMutex, upd, hist, cacheLock, life>>

\* The loop head of line 149 with the validation of lines 150-163.
GetRateLimitsRange(c) ==
    /\ call[c].pc = "range"
    /\ call[c].op = "GetRateLimits"
    /\ Len(call[c].batch) < call[c].n
    /\ \E req \in Requests :
          LET idx == Len(call[c].batch) + 1
              err == ValidationError(req)
          IN call' = [call EXCEPT ![c] =
                        IF err # NoError
                        THEN [@ EXCEPT !.batch = Append(@, req),
                                       !.resp = Appended(@, RateLimit(err, 0, FALSE, idx))]
                        ELSE [@ EXCEPT !.batch = Append(@, req), !.pc = "rlock"]]
    /\ UNCHANGED <<Picker, isOwner, health, peerMutex, upd, hist, cacheLock, life>>

\* s.peerMutex.RLock() (line 165).
GetRateLimitsRLock(c) ==
    /\ call[c].pc = "rlock"
    /\ ~peerMutex.writer
    /\ ~peerMutex.waiting
    /\ peerMutex' = [peerMutex EXCEPT !.readers = @ \cup {c}]
    /\ call' = [call EXCEPT ![c].pc = "get",
                            ![c].ev = @ \cup {<<Len(call[c].batch), "rlock", 0>>}]
    /\ UNCHANGED <<Picker, isOwner, health, upd, hist, cacheLock, life>>

\* A lookup that reads the Router a running rebuild is still filling.
LookupPickerBuilding == IF upd.pc \in {"loop", "wait"} THEN upd.picker ELSE Picker

\* The Router a lookup reads: s.conf.Picker (line 166).
LookupPicker == Picker

\* Ghost: what the lookup of item idx returned, as an event: the handle's
\* address and the owner flag the handle carried when it was returned.
Found(idx, peer) ==
    IF peer = NoPeer THEN {}
    ELSE {<<idx, IF isOwner[peer] THEN "found owner" ELSE "found peer", peer.host>>}

\* peer, err = s.conf.Picker.Get(globalKey) (line 166).
GetRateLimitsGet(c) ==
    /\ call[c].pc = "get"
    /\ LET idx  == Len(call[c].batch)
           peer == PickerGet(LookupPicker, GlobalKey(call[c].batch[idx]))
       IN call' = [call EXCEPT ![c].pc = "runlock",
                               ![c].peer = peer,
                               ![c].ev = @ \cup {<<idx, "lookup", 0>>} \cup Found(idx, peer)]
    /\ UNCHANGED <<Picker, isOwner, health, peerMutex, upd, hist, cacheLock, life>>

\* A dispatcher that leaves the read lock held when the lookup failed.
RUnlockedOnSuccess(c) ==
    IF call[c].peer = NoPeer THEN peerMutex.readers ELSE peerMutex.readers \ {c}

\* The readers of s.peerMutex after the RUnlock of line 168 (lookup failed)
\* or line 174 (lookup succeeded).
RUnlocked(c) == peerMutex.readers \ {c}

\* s.peerMutex.RUnlock() on the failure path (lines 167-173) and on the
\* success path (line 174).
GetRateLimitsRUnlock(c) ==
    /\ call[c].pc = "runlock"
    /\ peerMutex' = [peerMutex EXCEPT !.readers = RUnlocked(c)]
    /\ LET idx == Len(call[c].batch)
           key == GlobalKey(call[c].batch[idx])
       IN call' = [call EXCEPT ![c] =
                     IF call[c].peer = NoPeer
                     THEN [@ EXCEPT !.pc = "range",
                                    !.resp = Appended(@, RateLimit(
                                        Err("while finding peer that owns rate limit",
                                            key, "unable to pick a peer; pool is empty"),
                                        0, FALSE, idx))]
                     ELSE [@ EXCEPT !.pc = "owner"]]
    /\ UNCHANGED <<Picker, isOwner, health, upd, hist, cacheLock, life>>

\* A dispatcher that forwards every routed item.
OwnerBranchAlwaysRemote(flag) == "remote"

\* The branch of line 177: getRateLimit for the owner, the remote call else.
OwnerBranch(flag) == IF flag THEN "cachelock" ELSE "remote"

\* if peer.isOwner (line 177): an unsynchronized read of the handle's flag.
GetRateLimitsOwner(c) ==
    /\ call[c].pc = "owner"
    /\ call' = [call EXCEPT ![c].owner = isOwner[call[c].peer],
                            ![c].pc = OwnerBranch(isOwner[call[c].peer])]
    /\ UNCHANGED <<Picker, isOwner, health, peerMutex, upd, hist, cacheLock, life>>

\* A cache lock that excludes nobody.
CacheLockFreeAlways == TRUE

\* The cache's lock is exclusive: Lock() returns when nobody holds it.
CacheLockFree == cacheLock = 0

\* getRateLimit: s.conf.Cache.Lock() (line 236).
getRateLimitLock(c) ==
    /\ call[c].pc = "cachelock"
    /\ CacheLockFree
    /\ cacheLock' = c
    /\ call' = [call EXCEPT ![c].pc = "algo",
                            ![c].ev = @ \cup {<<Len(call[c].batch), "cachelock", 0>>}]
    /\ UNCHANGED <<Picker, isOwner, health, peerMutex, upd, hist, life>>

\* The error getRateLimit returns (lines 239-245): that of the algorithm for
\* the two known identifiers (algErr tells it failed), the invalid-algorithm
\* error for any other.
getRateLimitErr(req, algErr) ==
    IF req.Algorithm \in {Algorithm_TOKEN_BUCKET, Algorithm_LEAKY_BUCKET}
    THEN IF algErr THEN "algorithm error" ELSE ""
    ELSE "invalid rate limit algorithm"

\* The result the local path of GetRateLimits keeps (lines 179-185).
LocalResult(key, err, idx) ==
    IF err # ""
    THEN RateLimit(Err("while applying rate limit for", key, err), 0, FALSE, idx)
    ELSE RateLimit(NoError, 0, TRUE, idx)

\* The result GetPeerRateLimits keeps (lines 218-222): err.Error() alone.
PeerResult(err, idx) ==
    IF err # ""
    THEN RateLimit(Err(err, NoKey, ""), 0, FALSE, idx)
    ELSE RateLimit(NoError, 0, TRUE, idx)

\* getRateLimit's switch, return and deferred Unlock (lines 237-245), and what
\* the caller does with the result.
getRateLimitRun(c) ==
    /\ call[c].pc = "algo"
    /\ cacheLock = c
    /\ cacheLock' = 0
    /\ \E algErr \in BOOLEAN :
          LET idx == Len(call[c].batch)
              req == call[c].batch[idx]
              err == getRateLimitErr(req, algErr)
              rl  == IF call[c].op = "GetRateLimits"
                     THEN LocalResult(GlobalKey(req), err, idx)
                     ELSE PeerResult(err, idx)
          IN call' = [call EXCEPT ![c].pc = "range",
                                  ![c].resp = Appended(@, rl),
                                  ![c].ev = @ \cup {<<idx, "local", 0>>}]
    /\ UNCHANGED <<Picker, isOwner, health, peerMutex, upd, hist, life>>

\* A stamp with the node's own address.
OwnerStampSelf(peer) == AdvertiseAddress

\* Metadata["owner"] as line 196 sets it.
OwnerStamp(peer) == peer.host

\* The result of the remote path (lines 188-196).  rpcErr: the call failed;
\* otherwise the reply is what the peer's GetPeerRateLimits built, algErr
\* telling whether its algorithm failed.
RemoteResult(req, peer, rpcErr, algErr, idx) ==
    LET rl == IF rpcErr
              THEN RateLimit(Err("while fetching rate limit from peer",
                                 GlobalKey(req), "rpc error"), 0, FALSE, idx)
              ELSE PeerResult(getRateLimitErr(req, algErr), idx)
    IN [rl EXCEPT !.Owner = OwnerStamp(peer)]

\* rl, err = peer.GetPeerRateLimit(ctx, req) and lines 189-196.
GetRateLimitsRemote(c) ==
    /\ call[c].pc = "remote"
    /\ \E rpcErr \in BOOLEAN, algErr \in BOOLEAN :
          LET idx == Len(call[c].batch)
              req == call[c].batch[idx]
          IN /\ rpcErr => ~algErr
             /\ call' = [call EXCEPT
                           ![c].pc = "range",
                           ![c].resp = Appended(@, RemoteResult(req, call[c].peer,
                                                                rpcErr, algErr, idx)),
                           ![c].ev = @ \cup {<<idx, "remote", call[c].peer.host>>}]
    /\ UNCHANGED <<Picker, isOwner, health, peerMutex, upd, hist, cacheLock, life>>

\* A peer calls GetPeerRateLimits with a batch of n requests.
GetPeerRateLimitsCall(c) ==
    /\ call[c].pc = "idle"
    /\ \E n \in 0..(maxBatchSize + 1) :
          call' = [call EXCEPT ![c] =
                     IF TooLarge(n)
                     THEN [CallIdle EXCEPT !.pc = "done", !.op = "GetPeerRateLimits",
                                           !.n = n, !.ret = "OutOfRange"]
                     ELSE [CallIdle EXCEPT !.pc = "range", !.op = "GetPeerRateLimits",
                                           !.n = n]]
    /\ UNCHANGED <<Picker, isOwner, health, peerMutex, upd, hist, cacheLock, life>>

\* The loop head of line 217: every item goes to getRateLimit.
GetPeerRateLimitsRange(c) ==
    /\ call[c].pc = "range"
    /\ call[c].op = "GetPeerRateLimits"
    /\ Len(call[c].batch) < call[c].n
    /\ \E req \in Requests :
          call' = [call EXCEPT ![c].batch = Append(@, req), ![c].pc = "cachelock"]
    /\ UNCHANGED <<Picker, isOwner, health, peerMutex, upd, hist, cacheLock, life>>

\* return &resp, nil (lines 201 and 225).
DispatchReturn(c) ==
    /\ call[c].pc = "range"
    /\ Len(call[c].batch) = call[c].n
    /\ call' = [call EXCEPT ![c].pc = "done", ![c].ret = "ok"]
    /\ UNCHANGED <<Picker, isOwner, health, peerMutex, upd, hist, cacheLock, life>>

\* The caller has its answer; the thread is free for the next call.
DispatchDone(c) ==
    /\ call[c].pc = "done"
    /\ call' = [call EXCEPT ![c] = CallIdle]
    /\ UNCHANGED <<Picker, isOwner, health, peerMutex, upd, hist, cacheLock, life>>

Dispatch(c) ==
    \/ GetRateLimitsCall(c)
    \/ GetRateLimitsRange(c)
    \/ GetRateLimitsRLock(c)
    \/ GetRateLimitsGet(c)
    \/ GetRateLimitsRUnlock(c)
    \/ GetRateLimitsOwner(c)
    \/ getRateLimitLock(c)
    \/ getRateLimitRun(c)
    \/ GetRateLimitsRemote(c)
    \/ GetPeerRateLimitsCall(c)
    \/ GetPeerRateLimitsRange(c)
    \/ DispatchReturn(c)
    \/ DispatchDone(c)

\* -------------------------------------------------------------- HealthCheck
\* A client calls HealthCheck (line 229).
HealthCheckCall(c) ==
    /\ call[c].pc = "idle"
    /\ call' = [call EXCEPT ![c] = [CallIdle EXCEPT !.pc = "hrlock", !.op = "HealthCheck"]]
    /\ UNCHANGED <<Picker, isOwner, health, peerMutex, upd, hist, cacheLock, life>>

\* s.peerMutex.RLock() (line 230).
HealthCheckRLock(c) ==
    /\ call[c].pc = "hrlock"
    /\ ~peerMutex.writer
    /\ ~peerMutex.waiting
    /\ peerMutex' = [peerMutex EXCEPT !.readers = @ \cup {c}]
    /\ call' = [call EXCEPT ![c].pc = "hreturn"]
    /\ UNCHANGED <<Picker, isOwner, health, upd, hist, cacheLock, life>>

\* The fields of HealthCheckResp.
HealthFields == {"Status", "Message", "PeerCount"}

\* return &s.health, nil with the deferred RUnlock (lines 231-232): what is
\* returned is the address of s.health, no field has been read yet.
HealthCheckReturn(c) ==
    /\ call[c].pc = "hreturn"
    /\ peerMutex' = [peerMutex EXCEPT !.readers = @ \ {c}]
    /\ call' = [call EXCEPT ![c].pc = "hread", ![c].unread = HealthFields]
    /\ UNCHANGED <<Picker, isOwner, health, upd, hist, cacheLock, life>>

\* The response after its field f has been read through the returned pointer:
\* the field has the value s.health has now.
HealthRead(c, f) == [call[c].health EXCEPT ![f] = health[f]]

\* The caller of HealthCheck (the gRPC layer that encodes the response) reads
\* the fields through the pointer, one by one, without the lock.
HealthCheckRead(c) ==
    /\ call[c].pc = "hread"
    /\ \E f \in call[c].unread :
          call' = [call EXCEPT ![c].health = HealthRead(c, f),
                               ![c].unread = @ \ {f},
                               ![c].pc = IF call[c].unread = {f} THEN "done" ELSE "hread",
                               ![c].ret = IF call[c].unread = {f} THEN "ok" ELSE ""]
    /\ UNCHANGED <<Picker, isOwner, health, peerMutex, upd, hist, cacheLock, life>>

HealthCheck(c) ==
    \/ HealthCheckCall(c)
    \/ HealthCheckRLock(c)
    \/ HealthCheckReturn(c)
    \/ HealthCheckRead(c)
    \/ DispatchDone(c)

InitDispatch ==
    /\ call = [c \in Callers |-> CallIdle]
    /\ cacheLock = 0

\* ------------------------------------------------------------ Start and Stop
\* retry(2, ...) at line 100.
RetryAttempts == 2

\* Go errors of the lifecycle are strings; "" is nil.
LifeInit ==
    [start |-> "cache",      \* where Start is
     ret |-> "",             \* what Start returned ("ok": nil)
     lis |-> "none",         \* the listener task of lines 93-96
     lisErr |-> "",
     ver |-> "none",         \* the verification task of lines 99-111
     verErr |-> "",
     i |-> 0,                \* retry's loop counter
     probes |-> 0,           \* probes issued
     probeOk |-> FALSE,      \* some probe has succeeded
     lastErr |-> "",         \* what the most recent probe returned
     errs |-> <<>>,          \* the channel of line 92
     stop |-> "none",        \* where Stop is
     stopped |-> FALSE,      \* s.server.Stop() has been called
     serving |-> FALSE,      \* s.server.Serve is accepting
     cache |-> FALSE,        \* Cache.Start succeeded
     metrics |-> FALSE,      \* Metrics.Start succeeded
     registered |-> FALSE]   \* PeerSyncer.Start has been invoked

ErrsCap == 1

\* An unbuffered errs: a send completes only while Start is receiving.
ErrsHasRoomUnbuffered(l) == Len(l.errs) < ErrsCap /\ l.start = "recv"

\* A send on errs completes when the buffer of line 92 has room.
ErrsHasRoom(l) == Len(l.errs) < ErrsCap

LifeUnchanged == UNCHANGED <<Picker, isOwner, health, peerMutex, upd, hist, call, cacheLock>>

\* s.conf.Cache.Start() (lines 82-84).
StartCache ==
    /\ life.start = "cache"
    /\ \E ok \in BOOLEAN :
          life' = IF ok THEN [life EXCEPT !.start = "metrics", !.cache = TRUE]
                  ELSE [life EXCEPT !.start = "done", !.ret = "failed to start cache"]
    /\ LifeUnchanged

\* s.conf.Metrics.Start() (lines 87-89).
StartMetrics ==
    /\ life.start = "metrics"
    /\ \E ok \in BOOLEAN :
          life' = IF ok THEN [life EXCEPT !.start = "spawn", !.metrics = TRUE]
                  ELSE [life EXCEPT !.start = "done",
                                    !.ret = "failed to start metrics collector"]
    /\ LifeUnchanged

\* Lines 92-111: make the channel, start the listener task under the wait
\* group and the verification task.
StartSpawn ==
    /\ life.start = "spawn"
    /\ life' = [life EXCEPT !.start = "recv", !.lis = "spawned", !.ver = "probe"]
    /\ LifeUnchanged

\* What Start does with the value it received (lines 115-117).
AfterRecv(l, err) ==
    IF err # ""
    THEN [l EXCEPT !.start = "done",
                   !.ret = "while waiting for server to pass health check"]
    ELSE [l EXCEPT !.start = "register"]

\* err := <-errs (line 114).
StartRecv ==
    /\ life.start = "recv"
    /\ life.errs # <<>>
    /\ life' = AfterRecv([life EXCEPT !.errs = Tail(@)], Head(life.errs))
    /\ LifeUnchanged

\* s.conf.PeerSyncer.Start(s.conf.AdvertiseAddress) (lines 120-126).
StartRegister ==
    /\ life.start = "register"
    /\ \E ok \in BOOLEAN :
          life' = [life EXCEPT !.start = "done", !.registered = TRUE,
                               !.ret = IF ok THEN "ok"
                                       ELSE "failed to sync configs with other peers"]
    /\ LifeUnchanged

\* The listener task enters s.server.Serve (line 95).  On a server that was
\* stopped already Serve returns an error at once.
ServeBegin ==
    /\ life.lis = "spawned"
    /\ life' = IF life.stopped
               THEN [life EXCEPT !.lis = "send", !.lisErr = "server stopped"]
               ELSE [life EXCEPT !.lis = "serving", !.serving = TRUE]
    /\ LifeUnchanged

\* Serve returns: nil once Stop was called, else a non-nil error (line 94).
ServeReturn ==
    /\ life.lis = "serving"
    /\ life' = [life EXCEPT !.lis = "send", !.serving = FALSE,
                            !.lisErr = IF life.stopped THEN "" ELSE "accept error"]
    /\ LifeUnchanged

\* errs <- ... of the listener task (line 95); the task ends, wg.Done.
ListenerSend ==
    /\ life.lis = "send"
    /\ ErrsHasRoom(life)
    /\ life' = [life EXCEPT !.lis = "done", !.errs = Append(@, life.lisErr)]
    /\ LifeUnchanged

\* A retry that goes on after a success until its attempts are used up.
RetryStepUntilLast(l, err) ==
    IF l.i + 1 < RetryAttempts THEN [l EXCEPT !.i = @ + 1, !.verErr = err]
    ELSE [l EXCEPT !.i = @ + 1, !.ver = "send", !.verErr = err]

\* retry (lines 290-299) after one callback returned err: return nil on
\* success, sleep and go on otherwise, return the last error after the last
\* attempt.
RetryStep(l, err) ==
    IF err = "" THEN [l EXCEPT !.ver = "send", !.verErr = ""]
    ELSE IF l.i + 1 < RetryAttempts THEN [l EXCEPT !.i = @ + 1, !.verErr = err]
    ELSE [l EXCEPT !.i = @ + 1, !.ver = "send", !.verErr = err]

\* What one probe can return: nil, the error of grpc.Dial (line 103) or the
\* error of client.HealthCheck (line 108), a 500 ms timeout for instance.
ProbeErrs == {"", "dial error", "deadline exceeded"}

\* One callback of the verification task (lines 101-109): a loopback
\* HealthCheck.  It can succeed only while Serve is accepting; it can always
\* fail.
VerifyProbe ==
    /\ life.ver = "probe"
    /\ \E err \in ProbeErrs :
          /\ err = "" => (life.serving /\ ~life.stopped)
          /\ life' = RetryStep([life EXCEPT !.probes = @ + 1,
                                            !.probeOk = @ \/ (err = ""),
                                            !.lastErr = err],
                               err)
    /\ LifeUnchanged

\* errs <- retry(...) of the verification task (line 100).
VerifySend ==
    /\ life.ver = "send"
    /\ ErrsHasRoom(life)
    /\ life' = [life EXCEPT !.ver = "done", !.errs = Append(@, life.verErr)]
    /\ LifeUnchanged

\* Stop is called (at any moment): s.server.Stop() (line 129).
StopServer ==
    /\ life.stop = "none"
    /\ life' = [life EXCEPT !.stop = "syncer", !.stopped = TRUE]
    /\ LifeUnchanged

\* s.conf.PeerSyncer.Stop() (line 130).
StopSyncer ==
    /\ life.stop = "syncer"
    /\ life' = [life EXCEPT !.stop = "metrics"]
    /\ LifeUnchanged

\* s.conf.Metrics.Stop() (line 131).
StopMetrics ==
    /\ life.stop = "metrics"
    /\ life' = [life EXCEPT !.stop = "wait"]
    /\ LifeUnchanged

\* s.wg.Wait() (line 132) returns when no task of the wait group is running.
StopWait ==
    /\ life.stop = "wait"
    /\ life.lis \in {"none", "done"}
    /\ life' = [life EXCEPT !.stop = "done"]
    /\ LifeUnchanged

Start ==
    \/ StartCache
    \/ StartMetrics
    \/ StartSpawn
    \/ StartRecv
    \/ StartRegister
    \/ ServeBegin
    \/ ServeReturn
    \/ ListenerSend
    \/ VerifyProbe
    \/ VerifySend

Stop ==
    \/ StopServer
    \/ StopSyncer
    \/ StopMetrics
    \/ StopWait

\* -------------------------------------------------------------- specifications
Init ==
    /\ InitPeers
    /\ InitDispatch
    /\ life = LifeInit

\* The serving instance: membership rebuilds racing with a dispatcher.
Next ==
    \/ updatePeers
    \/ Dispatch(1)

Spec == Init /\ [][Next]_vars

\* The membership coordinator alone.
PeersSpec == Init /\ [][updatePeers]_vars

\* A rebuild that was called runs on: nothing in updatePeers waits for
\* anything but the lock.
updatePeersRun ==
    \/ updatePeersIter
    \/ updatePeersLock
    \/ updatePeersLocked
    \/ updatePeersSwap
    \/ updatePeersStatus
    \/ updatePeersErrs
    \/ updatePeersCount
    \/ updatePeersUnlock

FairPeersSpec == PeersSpec /\ WF_vars(updatePeersRun)

\* The lifecycle alone.
NextLife ==
    \/ Start
    \/ Stop

LifeSpec == Init /\ [][NextLife]_vars

\* Every step of Start, of its two tasks and of a Stop that was called is
\* taken in the end when it can be; Serve returns for certain only once the
\* server was stopped, and nobody has to call Stop.
LifeRun ==
    \/ StartCache
    \/ StartMetrics
    \/ StartSpawn
    \/ StartRecv
    \/ StartRegister
    \/ ServeBegin
    \/ ServeReturn /\ life.stopped
    \/ ListenerSend
    \/ VerifyProbe
    \/ VerifySend
    \/ StopSyncer
    \/ StopMetrics
    \/ StopWait

FairLifeSpec == LifeSpec /\ WF_vars(LifeRun)

\* Rebuilds racing with the health checks of one client.
NextHealth ==
    \/ updatePeers
    \/ HealthCheck(2)

HealthSpec == Init /\ [][NextHealth]_vars

\* Two client threads, each issuing any of the three RPCs with batches of at
\* most LockBatch items, racing with each other and with LockRebuilds
\* rebuilds.
LockBatch == 1
LockRebuilds == 1

Client(c) == (Dispatch(c) \/ HealthCheck(c)) /\ call'[c].n <= LockBatch

NextLock ==
    \/ updatePeers /\ hist'.calls <= LockRebuilds
    \/ Client(1)
    \/ Client(2)

LockSpec == Init /\ [][NextLock]_vars
\* ----------------------------------------------------------------- claims
Steps(k, i) == {e[2] : e \in {x \in k.ev : x[1] = i}}

\* C1: a call whose batch has at most maxBatchSize items returns success with
\* exactly one result per item in input order, whatever items failed: result
\* i is the one computed for item i, and while the call runs the results are
\* those of the items already finished, in order.
C1_OneResultPerItemInOrder ==
    \A c \in Callers :
        LET k == call[c] IN
        /\ \A i \in 1..Len(k.resp) : k.resp[i].idx = i
        /\ Len(k.resp) <= Len(k.batch)
        /\ Len(k.batch) <= Len(k.resp) + 1
        /\ k.pc = "range" => Len(k.resp) = Len(k.batch)
        /\ (k.pc = "done" /\ k.n <= maxBatchSize) =>
              /\ k.ret = "ok"
              /\ Len(k.batch) = k.n
              /\ Len(k.resp) = k.n

\* A finished GetRateLimits call of two items: the first failed at the remote
\* peer, the second got its decision from the local algorithm.
C1_Witness ==
    \E c \in Callers :
        /\ call[c].pc = "done"
        /\ call[c].op = "GetRateLimits"
        /\ call[c].n = 2
        /\ call[c].resp[1].Error.text = "while fetching rate limit from peer"
        /\ call[c].resp[2].Decided
        /\ call[c].resp[2].Owner = 0

\* C2: a call whose batch has more than maxBatchSize items is rejected as a
\* whole with the out-of-range error and touches nothing (no item read, no
\* lock taken, no lookup, no algorithm, no remote call, no result); a batch of
\* exactly maxBatchSize items is not rejected.
C2_OversizedBatchRejected ==
    \A c \in Callers :
        LET k == call[c] IN
        /\ k.n > maxBatchSize =>
              /\ k.pc = "done"
              /\ k.ret = "OutOfRange"
              /\ k.ev = {}
              /\ k.batch = <<>>
              /\ k.resp = <<>>
              /\ c \notin peerMutex.readers
              /\ cacheLock # c
        /\ k.n <= maxBatchSize => k.ret # "OutOfRange"
        /\ (k.n = maxBatchSize /\ k.pc = "done") => (k.ret = "ok" /\ Len(k.resp) = k.n)

\* A rejected call of maxBatchSize + 1 items.
C2_Witness ==
    \E c \in Callers :
        /\ call[c].pc = "done"
        /\ call[c].n = maxBatchSize + 1
        /\ call[c].ret = "OutOfRange"

Invalid(req) == req.UniqueKey = "" \/ req.Namespace = ""

\* C3: in GetRateLimits an item with an empty unique_key or namespace gets a
\* result with a non-empty error and no lock, lookup, algorithm or remote call
\* is made for it; the error names unique_key whenever unique_key is empty and
\* names namespace exactly when only namespace is empty.
C3_InvalidItemsNotRouted ==
    \A c \in Callers :
        LET k == call[c] IN
        k.op = "GetRateLimits" =>
            \A i \in 1..Len(k.batch) :
                LET req == k.batch[i] IN
                /\ Invalid(req) =>
                      /\ Steps(k, i) = {}
                      /\ i <= Len(k.resp)
                      /\ k.resp[i].Error # NoError
                      /\ k.resp[i].Error.text # ""
                      /\ ~k.resp[i].Decided
                /\ i <= Len(k.resp) =>
                      /\ k.resp[i].Error.text = "field 'unique_key' cannot be empty"
                            <=> req.UniqueKey = ""
                      /\ k.resp[i].Error.text = "field 'namespace' cannot be empty"
                            <=> (req.UniqueKey # "" /\ req.Namespace = "")

\* A finished call whose first item has both fields empty and whose second
\* has only the namespace empty.
C3_Witness ==
    \E c \in Callers :
        /\ call[c].pc = "done"
        /\ call[c].op = "GetRateLimits"
        /\ call[c].n = 2
        /\ call[c].batch[1].UniqueKey = "" /\ call[c].batch[1].Namespace = ""
        /\ call[c].batch[2].UniqueKey # "" /\ call[c].batch[2].Namespace = ""
        /\ call[c].resp[1].Error.text = "field 'unique_key' cannot be empty"
        /\ call[c].resp[2].Error.text = "field 'namespace' cannot be empty"
\* C4: whenever no rebuild holds the exclusive lock, the status is Unhealthy
\* exactly when an address failed to connect in the most recent committed
\* rebuild, and it is Healthy after a committed rebuild without failures,
\* whatever the rebuilds before it did.
C4_StatusTracksLatestRebuild ==
    ~peerMutex.writer =>
        /\ health.Status = UnHealthy <=> hist.failed # {}
        /\ (hist.n >= 1 /\ hist.failed = {}) => health.Status = Healthy

\* Two rebuilds have committed; the first had a failure (its text is still in
\* the message), the second had none and published a smaller Router.
C4_Witness ==
    /\ upd.pc = "idle"
    /\ hist.n = 2
    /\ hist.failed = {}
    /\ health.Status = Healthy
    /\ health.Message # <<>>
    /\ PickerSize(hist.prev) > PickerSize(Picker)

\* The messages of the addresses of conf that are in failed, in list order.
FailureMessages(conf, failed) ==
    LET f == SelectSeq(conf, LAMBDA a : a \in failed)
    IN [j \in 1..Len(f) |-> ConnectErr(f[j])]

\* C5: once a rebuild has committed, the whole HealthState is a function of
\* that rebuild's outcome: the status tells whether it had failures, the
\* message holds exactly its failure messages (none after a rebuild without
\* failures) and peerCount is the size of the Router it published.
C5_HealthFromLatestOutcome ==
    (~peerMutex.writer /\ hist.n >= 1) =>
        health = [Status |-> IF hist.failed # {} THEN UnHealthy ELSE Healthy,
                  Message |-> FailureMessages(hist.conf, hist.failed),
                  PeerCount |-> PickerSize(hist.cur)]

C6_Committed ==
    /\ upd.pc = "idle" => hist.n = hist.calls
    /\ upd.pc \in {"loop", "wait", "swap"} => hist.calls = hist.n + 1
    /\ (hist.n >= 1 /\ ~peerMutex.writer) =>
          /\ Picker = hist.cur
          /\ DOMAIN Picker \subseteq hist.connected
          /\ \A a \in DOMAIN Picker : Picker[a].host = a /\ a \in Range(hist.conf)
          /\ hist.failed # {} =>
                /\ health.Status = UnHealthy
                /\ health.PeerCount = PickerSize(Picker)
                /\ health.PeerCount <= Len(hist.conf)
                /\ \A a \in hist.failed :
                      \E j \in 1..Len(health.Message) : health.Message[j].peer = a

\* C6: a failed connect never aborts a rebuild.  Every updatePeers call runs
\* to its end and returns only after it has committed; the Router it commits
\* is the one it built, holding only handles of addresses of its list that
\* connected; and when an address failed the committed HealthState is
\* Unhealthy, its peerCount is the new Router's size and at most the length of
\* the list, and its message names every failed address.
C6_RebuildAlwaysCommits ==
    /\ []C6_Committed
    /\ (upd.pc = "loop") ~> (upd.pc = "idle")

\* A rebuild over two addresses, one of which failed, has committed.
C6_Witness ==
    /\ upd.pc = "idle"
    /\ hist.n >= 1
    /\ Len(hist.conf) = 2
    /\ Cardinality(hist.failed) = 1
    /\ PickerSize(Picker) = 1
    /\ health.Status = UnHealthy

\* C7: a lookup reads one fully built, published Router.  The published
\* Router is always the complete result of the latest commit, never the one a
\* rebuild is still filling; and the handle a lookup got, while its read lock
\* is still held, is the one the published Router maps the key to, hence the
\* one the Router before the latest commit or the Router of that commit maps
\* it to.
C7_LookupSeesOnePublishedRouter ==
    /\ Picker = hist.cur
    /\ DOMAIN Picker = hist.connected
    /\ \A c \in Callers :
          call[c].pc = "runlock" =>
              LET key == GlobalKey(call[c].batch[Len(call[c].batch)]) IN
              /\ c \in peerMutex.readers
              /\ call[c].peer = PickerGet(Picker, key)
              /\ call[c].peer \in {PickerGet(hist.prev, key), PickerGet(hist.cur, key)}

\* A lookup has been answered while a rebuild, whose new Router maps the key
\* to another handle, waits for the lock to commit.
C7_Witness ==
    \E c \in Callers :
        /\ call[c].pc = "runlock"
        /\ call[c].peer # NoPeer
        /\ upd.pc = "wait"
        /\ PickerGet(upd.picker, GlobalKey(call[c].batch[Len(call[c].batch)]))
              # call[c].peer

\* C8: PeerSyncer.Start is invoked only after cache start and metrics start
\* succeeded and a loopback probe has succeeded; and when Start has returned
\* without any probe having succeeded, it returned an error and did not
\* register.
C8_RegisterOnlyAfterProbe ==
    /\ life.registered => (life.cache /\ life.metrics /\ life.probeOk)
    /\ (life.start = "done" /\ ~life.probeOk) => (life.ret # "ok" /\ ~life.registered)

\* C9: in a GetRateLimits response, the result of an item that the peer of a
\* non-owning handle served carries that handle's address as owner metadata,
\* and the result of an item the local algorithm served carries none.
C9_OwnerMetadata ==
    \A c \in Callers :
        LET k == call[c] IN
        k.op = "GetRateLimits" =>
            \A i \in 1..Len(k.resp) :
                /\ \A e \in k.ev :
                      (e[1] = i /\ e[2] = "remote"
                         /\ k.resp[i].Error.text # "while fetching rate limit from peer")
                      => /\ k.resp[i].Owner = e[3]
                         /\ e[3] \in Addrs \ {AdvertiseAddress}
                /\ "local" \in Steps(k, i) => k.resp[i].Owner = 0

\* A finished call whose first item was decided by peer 2 and whose second was
\* decided locally.
C9_Witness ==
    \E c \in Callers :
        /\ call[c].pc = "done"
        /\ call[c].op = "GetRateLimits"
        /\ call[c].n = 2
        /\ call[c].resp[1].Decided /\ call[c].resp[1].Owner = 2
        /\ call[c].resp[2].Decided /\ call[c].resp[2].Owner = 0
        /\ "local" \in Steps(call[c], 2)

Owners(p) == {a \in DOMAIN p : isOwner[p[a]]}

\* C10 (as amended): in every published Router a handle is flagged owner
\* exactly when its address is the advertised address; so exactly one handle
\* of the current Router is the owner when the advertised address is in the
\* most recent membership list and connected, and none is otherwise.
C10_OwnerIffAdvertised ==
    /\ \A a \in DOMAIN Picker :
          isOwner[Picker[a]] <=> Picker[a].host = AdvertiseAddress
    /\ Cardinality(Owners(Picker)) =
          IF AdvertiseAddress \in hist.connected THEN 1 ELSE 0

\* Two rebuilds have committed; the current Router holds two handles, and the
\* one of the advertised address, reused from the first rebuild, is the owner.
C10_Witness ==
    /\ upd.pc = "idle"
    /\ hist.n = 2
    /\ PickerSize(Picker) = 2
    /\ Picker[AdvertiseAddress].gen = 1
    /\ Owners(Picker) = {AdvertiseAddress}

\* C10 as stated: exactly one owner whenever the advertised address appears
\* in the most recent membership list.
C10_OwnerWheneverListed ==
    /\ \A a \in DOMAIN Picker :
          isOwner[Picker[a]] <=> Picker[a].host = AdvertiseAddress
    /\ Cardinality(Owners(Picker)) =
          IF AdvertiseAddress \in Range(hist.conf) THEN 1 ELSE 0

\* C11: in GetRateLimits at most one of the local algorithm and the remote
\* call is attempted for an item, and the lookup decides which: a finished
\* item had the local algorithm run exactly when it passed validation and its
\* lookup returned a handle flagged owner, and a remote call exactly when it
\* passed validation and its lookup returned a handle not flagged owner; an
\* item in progress has attempted nothing else than that.
C11_LookupDecidesPath ==
    \A c \in Callers :
        LET k == call[c] IN
        k.op = "GetRateLimits" =>
            \A i \in 1..Len(k.batch) :
                LET st    == Steps(k, i)
                    valid == ~Invalid(k.batch[i])
                IN /\ ~({"local", "remote"} \subseteq st)
                   /\ ~({"found owner", "found peer"} \subseteq st)
                   /\ "local" \in st => (valid /\ "found owner" \in st)
                   /\ "remote" \in st => (valid /\ "found peer" \in st)
                   /\ i <= Len(k.resp) =>
                         /\ "local" \in st <=> (valid /\ "found owner" \in st)
                         /\ "remote" \in st <=> (valid /\ "found peer" \in st)

\* A finished GetRateLimits call of two valid items that both resolved to the
\* owner: both went to the local algorithm and no remote call was made.
C11_Witness ==
    \E c \in Callers :
        /\ call[c].pc = "done"
        /\ call[c].op = "GetRateLimits"
        /\ call[c].n = 2
        /\ \A i \in 1..2 : {"found owner", "local"} \subseteq Steps(call[c], i)
        /\ \A e \in call[c].ev : e[2] # "remote"

\* C12: a committed rebuild kept every live handle.  For every address of its
\* list that the Router before the commit held a handle for, the Router it
\* published holds that same handle, and NewPeerClient constructed no
\* connection for the address (hist.connected: the addresses of the list for
\* which NewPeerClient returned a new client).
C12_LiveHandlesKept ==
    hist.n >= 1 =>
        \A a \in Range(hist.conf) \cap DOMAIN hist.prev :
            /\ a \in DOMAIN hist.cur
            /\ hist.cur[a] = hist.prev[a]
            /\ a \notin hist.connected

\* The steps of a client thread and of the rebuild that can be taken now.
CanStep(c) == ENABLED (Dispatch(c) \/ HealthCheck(c))
RebuildCanStep == ENABLED updatePeers

\* C13: s.peerMutex is read-held exactly between an RLock and the RUnlock
\* that follows the single Picker.Get or the single HealthCheck read, and
\* write-held exactly during the commit.  So no thread holds it while a handle
\* is constructed, while a remote call runs, or while it waits for, holds or
\* runs the local algorithm under the cache lock; it is released after a
\* failed lookup as after a successful one; the two locks are never nested;
\* every thread that cannot step waits for a thread that can (no deadlock);
\* and a lookup is not kept out while a rebuild is still connecting.
C13_LockDiscipline ==
    /\ \A c \in Callers :
          /\ c \in peerMutex.readers <=> call[c].pc \in {"get", "runlock", "hreturn"}
          /\ cacheLock = c <=> call[c].pc = "algo"
          /\ cacheLock = c => c \notin peerMutex.readers
          /\ call[c].pc \in {"range", "owner", "cachelock", "algo", "remote", "done",
                             "hread"} => c \notin peerMutex.readers
    /\ peerMutex.writer <=> upd.pc \in {"swap", "status", "errs", "count", "unlock"}
    /\ peerMutex.waiting <=> upd.pc = "wait"
    /\ peerMutex.writer => peerMutex.readers = {}
    /\ upd.pc = "loop" =>
          /\ ~peerMutex.writer
          /\ \A c \in Callers : call[c].pc \in {"rlock", "hrlock"} => CanStep(c)
    /\ \A c \in Callers :
          ~CanStep(c) =>
              \/ /\ call[c].pc \in {"rlock", "hrlock"}
                 /\ RebuildCanStep \/ \E r \in peerMutex.readers : CanStep(r)
              \/ /\ call[c].pc = "cachelock"
                 /\ cacheLock \in Callers \ {c}
                 /\ CanStep(cacheLock)
    /\ (upd.pc # "idle" /\ ~RebuildCanStep) =>
          /\ upd.pc = "wait"
          /\ peerMutex.readers # {}
          /\ \A r \in peerMutex.readers : CanStep(r)

\* A rebuild waits for the lock to commit; one client still holds the read
\* lock after a lookup that failed, the other is kept out at its RLock.
C13_Witness ==
    /\ upd.pc = "wait"
    /\ \E c, d \in Callers :
          /\ call[c].pc = "runlock"
          /\ call[c].peer = NoPeer
          /\ c \in peerMutex.readers
          /\ call[d].pc \in {"rlock", "hrlock"}
          /\ ~CanStep(d)

\* The callers whose local algorithm invocation is in progress.
InAlgorithm == {c \in Callers : call[c].pc = "algo"}

\* C14: over all concurrent GetRateLimits and GetPeerRateLimits calls at most
\* one local algorithm invocation is in progress; a caller holds the cache
\* lock exactly while its invocation is in progress, so the lock is released
\* whatever getRateLimit returned; and an item with an unknown algorithm
\* identifier that reached getRateLimit got a result with the
\* invalid-algorithm error and no decision.
C14_OneAlgorithmAtATime ==
    /\ Cardinality(InAlgorithm) <= 1
    /\ \A c \in Callers :
          LET k == call[c] IN
          /\ cacheLock = c <=> k.pc = "algo"
          /\ \A i \in 1..Len(k.resp) :
                /\ "cachelock" \in Steps(k, i) <=> "local" \in Steps(k, i)
                /\ ("local" \in Steps(k, i)
                      /\ k.batch[i].Algorithm \notin {Algorithm_TOKEN_BUCKET,
                                                      Algorithm_LEAKY_BUCKET}) =>
                      /\ ~k.resp[i].Decided
                      /\ "invalid rate limit algorithm"
                            \in {k.resp[i].Error.text, k.resp[i].Error.cause}

\* A GetRateLimits call and a GetPeerRateLimits call race for the cache: the
\* one runs getRateLimit on an item with an unknown algorithm identifier, the
\* other waits for the lock.
C14_Witness ==
    \E c, d \in Callers :
        /\ call[c].pc = "algo"
        /\ call[d].pc = "cachelock"
        /\ call[c].op # call[d].op
        /\ call[c].batch[Len(call[c].batch)].Algorithm = 2
        /\ cacheLock = c

\* C15: the response of a finished HealthCheck call is a consistent snapshot:
\* its (status, message, peerCount) triple is one that was in effect at an
\* instant at which no commit was in progress, that is the initial triple or
\* the triple one rebuild left at the end of its commit.
C15_ConsistentSnapshot ==
    \A c \in Callers :
        (call[c].op = "HealthCheck" /\ call[c].pc = "done") =>
            call[c].health \in hist.committed

\* C16: retry issues at most RetryAttempts probes and none after the first
\* success; what it returns, the value the verification task sends, is nil
\* exactly when a probe succeeded and otherwise the error of the last probe,
\* returned only after all attempts were used; a success at the second probe
\* is a success of retry.
C16_RetryBounded ==
    /\ life.probes <= RetryAttempts
    /\ life.probeOk => (life.ver \in {"send", "done"} /\ life.lastErr = "")
    /\ life.ver = "probe" => life.probes = life.i
    /\ life.ver \in {"send", "done"} =>
          /\ life.probes >= 1
          /\ life.verErr = "" <=> life.probeOk
          /\ life.verErr = life.lastErr
          /\ life.verErr # "" => life.probes = RetryAttempts
    /\ (life.probes = 2 /\ life.probeOk) => life.verErr = ""

\* The first probe failed, the second succeeded, and Start, which nobody
\* stopped, returned nil after exactly two probes.
C16_Witness ==
    /\ life.probes = 2
    /\ life.i = 1
    /\ life.probeOk
    /\ life.ver = "done"
    /\ life.verErr = ""
    /\ ~life.stopped
    /\ life.start = "done"
    /\ life.ret = "ok"

\* C17: in a GetRateLimits response owner metadata is on a result only when
\* the remote call for the item was made and succeeded; the result of an item
\* whose remote call failed carries the item-scoped error and no owner
\* metadata.
C17_OwnerOnlyOnRemoteSuccess ==
    \A c \in Callers :
        LET k == call[c] IN
        k.op = "GetRateLimits" =>
            \A i \in 1..Len(k.resp) :
                /\ k.resp[i].Owner # 0 =>
                      /\ "remote" \in Steps(k, i)
                      /\ k.resp[i].Error.text # "while fetching rate limit from peer"
                /\ k.resp[i].Error.text = "while fetching rate limit from peer" =>
                      k.resp[i].Owner = 0

\* C18: the status of every HealthCheck response is Healthy or UnHealthy,
\* also when the call is made before the first rebuild has committed.
C18_StatusIsHealthyOrUnhealthy ==
    \A c \in Callers :
        (call[c].op = "HealthCheck" /\ call[c].pc = "done") =>
            call[c].health.Status \in {Healthy, UnHealthy}

\* A task is at its send on errs and the buffer is full.
SenderBlocked ==
    /\ ~ErrsHasRoom(life)
    /\ life.lis = "send" \/ life.ver = "send"

C19_ChannelSafe ==
    /\ Len(life.errs) <= ErrsCap
    /\ SenderBlocked => life.start = "recv"

\* C19: a Stop that was called returns.  The two tasks send one value each on
\* errs and Start receives one: a task finds the buffer full only while Start
\* has not received yet, so each task that reaches its send completes it, the
\* listener task ends once the server is stopped, and wg.Wait returns.
C19_StopTerminates ==
    /\ []C19_ChannelSafe
    /\ (life.stop # "none") ~> (life.stop = "done")
    /\ (life.stopped /\ life.lis # "none") ~> (life.lis = "done")
    /\ (life.lis = "send") ~> (life.lis = "done")
    /\ (life.ver = "send") ~> (life.ver = "done")

\* Start returned nil, then Stop was called and has returned: both tasks have
\* completed their sends and the listener's value is left in the buffer.
C19_Witness ==
    /\ life.start = "done"
    /\ life.ret = "ok"
    /\ life.stop = "done"
    /\ life.lis = "done"
    /\ life.ver = "done"
    /\ life.errs = <<"">>

\* The flag of every handle that exists keeps its value in a step.
OwnerFlagsKept == \A h \in DOMAIN isOwner : isOwner'[h] = isOwner[h]

\* The flag a GetRateLimits call has read at line 177 is the one the handle
\* carried when the lookup returned it.
DecisionMatchesLookup ==
    \A c \in Callers :
        (call[c].op = "GetRateLimits"
           /\ call[c].pc \in {"cachelock", "algo", "remote"}) =>
            /\ call[c].owner <=> "found owner" \in Steps(call[c], Len(call[c].batch))
            /\ call[c].owner = isOwner[call[c].peer]

\* C20: no step changes the owner flag of a handle that exists, a handle
\* reachable from the published Router included: the write a rebuild makes on
\* a reused handle sets true on a flag that is true; and the flag a dispatcher
\* decides on is the one its lookup's handle carried.
C20_OwnerFlagStable ==
    /\ [][OwnerFlagsKept]_vars
    /\ []DecisionMatchesLookup

\* A rebuild has reused the published owner handle, writing its flag again,
\* while a GetRateLimits call that got this handle from its lookup has not
\* read the flag yet.
C20_Witness ==
    /\ upd.pc = "loop"
    /\ AdvertiseAddress \in DOMAIN Picker
    /\ AdvertiseAddress \in DOMAIN upd.picker
    /\ upd.picker[AdvertiseAddress] = Picker[AdvertiseAddress]
    /\ \E c \in Callers :
          /\ call[c].pc = "owner"
          /\ call[c].peer = Picker[AdvertiseAddress]
          /\ isOwner[call[c].peer]
=============================================================================
